---- MODULE Spec2Model ----
(***************************************************************************)
(* Model of the support agent's orchestration graph                       *)
(* (src/agents/support_agent.py) together with the retrieval tool         *)
(* (src/tools/rag_tool.py), the vector store wrapper                       *)
(* (src/storage/vector_store.py) and the response model                   *)
(* (src/core/models.py).                                                   *)
(*                                                                         *)
(* Text is a sequence of tokens.  A token is a non-empty piece of text;    *)
(* the alphabet is chosen so that every pattern the code looks for         *)
(* ("CONFIDENCE:", "CLARIFICATION_NEEDED: yes", "Source: ", a newline, a   *)
(* colon) can only occur aligned with token boundaries, so the code's      *)
(* substring tests, splits and regular expression are computed on tokens   *)
(* exactly as the code computes them on characters.                        *)
(* Numbers with two decimals (confidence, scores) are integers counting    *)
(* hundredths: 0.7 is 70.                                                  *)
(***************************************************************************)
EXTENDS Integers, Sequences, FiniteSets, TLC

VARIABLES
    pc,               \* position of process_message: "idle", a node name, "END", "done"
    state,            \* the AgentState of the running graph
    response,         \* the AgentResponse returned by process_message (NoResponse before)
    executed,         \* the nodes that have run, in order
    llm_calls,        \* the nodes that have called self.llm.invoke, in order
    retriever_calls,  \* number of calls of vector_store.similarity_search
    store_raised,     \* whether the collection query raised during this run
    retrieved,        \* the documents similarity_search returned to the tool
    routes,           \* the edges chosen by the two routers, in order
    gen_prompt,       \* the user prompt generate_answer sent to the model
    validator_reply,  \* the reply of the model to validate_answer (None before)
    raised_in,        \* where an exception was raised in this run ("" if nowhere)
    turns             \* the process_message calls in progress on the one instance

vars == <<pc, state, response, executed, llm_calls, retriever_calls,
          store_raised, retrieved, routes, gen_prompt, validator_reply,
          raised_in, turns>>

(***************************************************************************)
(* Bounds of the model.                                                    *)
(***************************************************************************)
MaxLines == 3     \* lines in a validator reply
MaxDocs == 2      \* hits returned by the collection query

(***************************************************************************)
(* Program constants.                                                      *)
(***************************************************************************)
confidence_threshold == 70
min_similarity_score == 50
low_confidence_advisory == 70
initial_confidence == 100

NL == "\n"
Whitespace == {" ", NL}

(***************************************************************************)
(* Text helpers: str.strip, str.lower, "in", str.split, str.join.          *)
(***************************************************************************)
RECURSIVE LStrip(_)
LStrip(s) ==
    IF s # <<>> /\ Head(s) \in Whitespace THEN LStrip(Tail(s)) ELSE s

RECURSIVE RStrip(_)
RStrip(s) ==
    IF s # <<>> /\ s[Len(s)] \in Whitespace
    THEN RStrip(SubSeq(s, 1, Len(s) - 1))
    ELSE s

Strip(s) == RStrip(LStrip(s))

LowerTok(t) ==
    CASE t = "Greeting" -> "greeting"
      [] t = "Other" -> "other"
      [] t = "Question" -> "question"
      [] t = "Yes" -> "yes"
      [] t = "YES" -> "yes"
      [] t = "No" -> "no"
      [] t = "Yes, it does" -> "yes, it does"
      [] OTHER -> t

Lower(s) == [i \in 1..Len(s) |-> LowerTok(s[i])]

\* pat in s
Contains(s, pat) ==
    \E i \in 1..(Len(s) - Len(pat) + 1) : SubSeq(s, i, i + Len(pat) - 1) = pat

\* index of the first sep in s at or after position i, Len(s) + 1 if none
RECURSIVE IndexFrom(_, _, _)
IndexFrom(s, sep, i) ==
    IF i > Len(s) THEN Len(s) + 1
    ELSE IF s[i] = sep THEN i
    ELSE IndexFrom(s, sep, i + 1)

\* s.split(sep): the pieces between the separators, empty pieces included
RECURSIVE Split(_, _)
Split(s, sep) ==
    LET j == IndexFrom(s, sep, 1)
    IN  IF j > Len(s) THEN <<s>>
        ELSE <<SubSeq(s, 1, j - 1)>> \o Split(SubSeq(s, j + 1, Len(s)), sep)

\* s.split(sep, 1)
SplitOnce(s, sep) ==
    LET j == IndexFrom(s, sep, 1)
    IN  IF j > Len(s) THEN <<s>>
        ELSE <<SubSeq(s, 1, j - 1), SubSeq(s, j + 1, Len(s))>>

\* sep.join(lines)
RECURSIVE Join(_, _)
Join(lines, sep) ==
    IF lines = <<>> THEN <<>>
    ELSE IF Len(lines) = 1 THEN lines[1]
    ELSE lines[1] \o <<sep>> \o Join(Tail(lines), sep)

\* [x for x in s if P(x)]
RECURSIVE SelectLines(_, _)
SelectLines(lines, pat) ==
    IF lines = <<>> THEN <<>>
    ELSE IF Contains(Head(lines), pat)
         THEN <<Head(lines)>> \o SelectLines(Tail(lines), pat)
         ELSE SelectLines(Tail(lines), pat)

(***************************************************************************)
(* float(): the literals that parse, with their values in hundredths.      *)
(***************************************************************************)
FloatLiterals == {"0.92", "0.5", "0.7", "1.5", "-0.2"}

FloatValue(t) ==
    CASE t = "0.92" -> 92
      [] t = "0.5" -> 50
      [] t = "0.7" -> 70
      [] t = "1.5" -> 150
      [] t = "-0.2" -> -20

\* float(s) raises ValueError unless s is one literal
FloatParses(s) == Len(s) = 1 /\ s[1] \in FloatLiterals

(***************************************************************************)
(* Outcomes of a call: a returned value or a raised exception.             *)
(***************************************************************************)
Return(v) == [raised |-> FALSE, value |-> v, error |-> ""]
Raise(msg) == [raised |-> TRUE, value |-> <<>>, error |-> msg]

\* str(e) of the errors the model client raises
LLMErrors == {"Connection error.", ""}

(***************************************************************************)
(* The vector store (src/storage/vector_store.py).                         *)
(* A hit of the collection query is a document, its similarity             *)
(* (1 - distance, in hundredths) and its metadata, a sequence of           *)
(* <<key, value>> pairs in insertion order.                                *)
(***************************************************************************)
Hit(content, score, metadata) ==
    [content |-> content, score |-> score, metadata |-> metadata]

Hits ==
    { Hit(<<"Items can be returned within 30 days.">>, 90,
          << <<"source", <<"return_policy.pdf">> >> >>),
      Hit(<<"See ", "Source: ", "faq.md">>, 80,
          << <<"source", <<"manual.pdf">> >> >>),
      Hit(<<"Orders ship in 2 days.">>, 60,
          << <<"source", <<"shipping_policy.pdf">> >>, <<"page", <<"3">> >> >>),
      Hit(<<"Unrelated text.">>, 40,
          << <<"source", <<"old.pdf">> >> >>) }

\* the collection answers nearest first and names a document at most once
QueryResults ==
    UNION { { q \in [1..n -> Hits] :
                \A i \in 1..(n - 1) : q[i].score > q[i + 1].score }
            : n \in 0..MaxDocs }

\* str(e) of the errors the embedding model or the collection raises
StoreErrors == {"Collection support_docs does not exist."}

\* what embed_query and collection.query do in one search
StoreOutcomes ==
    { Return(q) : q \in QueryResults } \cup { Raise(m) : m \in StoreErrors }

\* dict.get(key, default)
RECURSIVE DictGet(_, _, _)
DictGet(metadata, key, default) ==
    IF metadata = <<>> THEN default
    ELSE IF metadata[Len(metadata)][1] = key THEN metadata[Len(metadata)][2]
    ELSE DictGet(SubSeq(metadata, 1, Len(metadata) - 1), key, default)

RAGResult(hit) ==
    [content |-> hit.content,
     score |-> hit.score,
     metadata |-> hit.metadata,
     source |-> DictGet(hit.metadata, "source", <<"unknown">>)]

RECURSIVE ConvertHits(_)
ConvertHits(q) ==
    IF q = <<>> THEN <<>>
    ELSE IF Head(q).score >= min_similarity_score
         THEN <<RAGResult(Head(q))>> \o ConvertHits(Tail(q))
         ELSE ConvertHits(Tail(q))

\* a variant that lets the failure of the search escape
similarity_search_reraise(o) ==
    IF o.raised THEN Raise(o.error) ELSE Return(ConvertHits(o.value))

\* VectorStore.similarity_search: any exception of the search is logged and
\* an empty list is returned
similarity_search(o) ==
    IF o.raised THEN Return(<<>>) ELSE Return(ConvertHits(o.value))

(***************************************************************************)
(* The retrieval tool (src/tools/rag_tool.py).                             *)
(***************************************************************************)
\* a variant that reports nothing when nothing was found
_format_no_results_blank == <<>>

_format_no_results ==
    <<NL, "No relevant information found in the knowledge base.", NL,
      "This might mean:", NL,
      "1. The information is not in our documentation", NL,
      "2. The query needs to be rephrased", NL,
      "3. This requires human assistance", NL,
      NL,
      "Consider asking the user for clarification or escalating to a human agent.",
      NL>>

\* f"{x:.2f}" of a number of hundredths
Fmt2(p) ==
    <<ToString(p \div 100), ".", ToString((p % 100) \div 10), ToString(p % 10)>>

RECURSIVE SumScores(_)
SumScores(results) ==
    IF results = <<>> THEN 0 ELSE Head(results).score + SumScores(Tail(results))

\* round(sum / n) to hundredths
AvgScore(results) ==
    (2 * SumScores(results) + Len(results)) \div (2 * Len(results))

\* f"{k}: {v}"
KeyValue(kv) == <<kv[1], ": ">> \o kv[2]

RECURSIVE NonSourceItems(_)
NonSourceItems(metadata) ==
    IF metadata = <<>> THEN <<>>
    ELSE IF Head(metadata)[1] # "source"
         THEN <<KeyValue(Head(metadata))>> \o NonSourceItems(Tail(metadata))
         ELSE NonSourceItems(Tail(metadata))

FormatDocument(i, result) ==
    LET metadata_str == Join(NonSourceItems(result.metadata), ", ")
    IN  <<"[Document ", ToString(i), "] (confidence: ">> \o Fmt2(result.score)
            \o <<")", NL>>
        \o <<"Source: ">> \o result.source \o <<NL>>
        \o <<"Content: ">> \o result.content \o <<NL>>
        \o (IF result.metadata # <<>> /\ metadata_str # <<>>
            THEN <<"Metadata: ">> \o metadata_str \o <<NL>>
            ELSE <<>>)
        \o <<NL>>

RECURSIVE FormatDocuments(_, _)
FormatDocuments(i, results) ==
    IF i > Len(results) THEN <<>>
    ELSE FormatDocument(i, results[i]) \o FormatDocuments(i + 1, results)

_format_results(results) ==
    IF results = <<>> THEN _format_no_results
    ELSE <<"Found ", ToString(Len(results)),
           " relevant documents (avg confidence: ">>
            \o Fmt2(AvgScore(results)) \o <<"):", NL, NL>>
         \o FormatDocuments(1, results)
         \o (IF SumScores(results) < low_confidence_advisory * Len(results)
             THEN <<NL,
                    "Note: Confidence is moderate. Consider asking clarifying questions.",
                    NL>>
             ELSE <<>>)

\* a variant without the tool's handler and with the store's failure escaping
RAGTool_run_unguarded(o) ==
    LET results == similarity_search_reraise(o)
    IN  IF results.raised THEN Raise(results.error)
        ELSE IF results.value = <<>> THEN Return(_format_no_results)
        ELSE Return(_format_results(results.value))

\* RAGTool._run: the formatted results; an exception inside the try block
\* becomes the text "Error searching knowledge base: ..."
RAGTool_run(o) ==
    LET results == similarity_search(o)
    IN  IF results.raised
        THEN Return(<<"Error searching knowledge base: ", results.error>>)
        ELSE IF results.value = <<>> THEN Return(_format_no_results)
        ELSE Return(_format_results(results.value))

(***************************************************************************)
(* What the language model may answer at each node.                        *)
(***************************************************************************)
UserMessages == { <<"What is your return policy?">> }

ClassifierReplies ==
    { <<"greeting">>, <<" ", "Greeting", NL>>, <<"other">>, <<"question">>,
      <<"billing">> }

GateReplies ==
    { <<"yes">>, <<" ", "Yes", NL>>, <<"yes", ".">>, <<"no">>, <<>> }

GeneratorReplies ==
    { <<"You can return items within 30 days.">>, <<>> }

ValidatorLines ==
    { <<"CLARIFICATION_NEEDED", ":", " ", "yes">>,
      <<"CLARIFICATION_NEEDED", ":", " ", "no">>,
      <<"CONFIDENCE", ":", " ", "0.92">>,
      <<"CONFIDENCE", ":", " ", "0.5">>,
      <<"CONFIDENCE", ":", " ", "0.7">>,
      <<"CONFIDENCE", ":", " ", "1.5">>,
      <<"CONFIDENCE", ":", " ", "0.X">>,
      <<"CONFIDENCE", ":", " ", "0.5", ":", " ", "high">>,
      <<"CLARIFICATION_QUESTION", ":", " ", "Which order do you mean?">> }

\* a reply of up to MaxLines lines; no line is repeated verbatim (the parse
\* reads the first line of each key and looks for the flag anywhere, so a
\* repetition of a line adds nothing)
ValidatorReplies ==
    { Join(ls, NL) :
        ls \in UNION { { l \in [1..n -> ValidatorLines] :
                            \A i, j \in 1..n : l[i] = l[j] => i = j }
                        : n \in 0..MaxLines } }

\* self.llm.invoke(...): a completion or an exception of the client
LLMOutcomes(replies) ==
    { Return(r) : r \in replies } \cup { Raise(m) : m \in LLMErrors }

(***************************************************************************)
(* The agent state and the response (src/agents/support_agent.py,          *)
(* src/core/models.py).                                                    *)
(***************************************************************************)
HumanMessage(content) == [role |-> "user", content |-> content]
AIMessage(content) == [role |-> "assistant", content |-> content]

\* None, as opposed to any text
None == <<"<None>">>

NoResponse == [content |-> None]

NoState == [user_query |-> None]

\* process_message: initial_state
initial_state(user_message) ==
    [messages |-> <<>>,
     user_query |-> user_message,
     intent |-> <<>>,
     needs_rag |-> FALSE,
     rag_results |-> <<>>,
     confidence |-> initial_confidence,
     answer |-> <<>>,
     needs_clarification |-> FALSE,
     clarification_question |-> <<>>,
     iteration_count |-> 0]

\* AgentState: messages is merged with operator.add, every other key is
\* replaced by the value the node returns
ApplyUpdate(old, update) ==
    [update EXCEPT !.messages = old.messages \o update.messages]

(***************************************************************************)
(* The nodes' computations.                                                *)
(***************************************************************************)
\* classify_intent: the dictionary the node returns
classify_intent_result(st, content) ==
    [st EXCEPT !.intent = Lower(Strip(content)),
               !.messages = st.messages \o <<HumanMessage(st.user_query)>>]

\* a variant of the heuristic that asks the model for every intent
intent_may_need_rag_always(intent) == TRUE

\* a variant of the heuristic that only knows greetings
intent_may_need_rag_greeting_only(intent) ==
    intent \notin { <<"greeting">> }

\* decide_rag: state["intent"] not in ["greeting", "other"]
intent_may_need_rag(intent) ==
    intent \notin { <<"greeting">>, <<"other">> }

\* a variant that accepts any reply beginning with yes
gate_reply_is_yes_prefix(content) ==
    Lower(Strip(content)) # <<>> /\ Head(Lower(Strip(content))) = "yes"

\* decide_rag: response.content.strip().lower() == "yes"
gate_reply_is_yes(content) == Lower(Strip(content)) = <<"yes">>

\* generate_answer: user_prompt
GeneralKnowledgeInstruction ==
    "Provide a direct, helpful response based on your general knowledge."

generate_answer_prompt(st) ==
    <<"User Query: ">> \o st.user_query \o <<NL>>
        \o <<"Intent: ">> \o st.intent \o <<NL, NL>>
        \o (IF st.needs_rag /\ st.rag_results # <<>>
            THEN <<NL, "Knowledge Base Results:", NL>> \o st.rag_results
                 \o <<NL, NL,
                      "Based on the above information, provide a helpful answer. If the knowledge base doesn't contain enough information, be honest about it.",
                      NL>>
            ELSE <<NL, GeneralKnowledgeInstruction, NL>>)

generate_answer_result(st, content) ==
    [st EXCEPT !.answer = content,
               !.messages = st.messages \o <<AIMessage(content)>>]

\* validate_answer: "CLARIFICATION_NEEDED: yes" in validation
ClarificationFlag == <<"CLARIFICATION_NEEDED", ":", " ", "yes">>

\* a variant that ignores the case of the reply
parse_needs_clarification_any_case(validation) ==
    Contains(Lower(validation), ClarificationFlag)

parse_needs_clarification(validation) == Contains(validation, ClarificationFlag)

\* validate_answer: confidence_line
confidence_lines(validation) ==
    SelectLines(Split(validation, NL), <<"CONFIDENCE", ":">>)

\* a variant that leaves the confidence as process_message initialised it
default_confidence_unset == initial_confidence

\* validate_answer: the confidence of a reply without a CONFIDENCE: line

default_confidence == 80

ValueErrorMessage == "could not convert string to float"

\* validate_answer:
\* float(confidence_line[0].split(':')[1].strip()) if confidence_line else 0.8
parse_confidence(validation) ==
    LET confidence_line == confidence_lines(validation)
        text == Strip(Split(confidence_line[1], ":")[2])
    IN  IF confidence_line = <<>> THEN Return(default_confidence)
        ELSE IF FloatParses(text) THEN Return(FloatValue(text[1]))
        ELSE Raise(ValueErrorMessage)

\* validate_answer: clarification_question
parse_clarification_question(validation, needs_clarification) ==
    LET clarification_lines ==
            SelectLines(Split(validation, NL), <<"CLARIFICATION_QUESTION", ":">>)
    IN  IF needs_clarification /\ clarification_lines # <<>>
        THEN Strip(SplitOnce(clarification_lines[1], ":")[2])
        ELSE <<>>

\* a variant that asks on either condition
stored_needs_clarification_either(needs_clarification, confidence) ==
    needs_clarification \/ confidence < confidence_threshold

\* a variant that stores the textual flag as it is
stored_needs_clarification_ungated(needs_clarification, confidence) ==
    needs_clarification

\* validate_answer:
\* needs_clarification and confidence < settings.confidence_threshold
stored_needs_clarification(needs_clarification, confidence) ==
    needs_clarification /\ confidence < confidence_threshold

\* validate_answer: the values parsed from the reply, or the ValueError
parse_validation(validation) ==
    LET needs_clarification == parse_needs_clarification(validation)
        confidence == parse_confidence(validation)
    IN  IF confidence.raised THEN Raise(confidence.error)
        ELSE Return(
            [confidence |-> confidence.value,
             needs_clarification |->
                 stored_needs_clarification(needs_clarification, confidence.value),
             clarification_question |->
                 parse_clarification_question(validation, needs_clarification)])

validate_answer_result(st, parsed) ==
    [st EXCEPT !.confidence = parsed.confidence,
               !.needs_clarification = parsed.needs_clarification,
               !.clarification_question = parsed.clarification_question]

\* ask_clarification
GenericClarification == "Could you provide more details about your question?"

\* a variant that always asks the generic question
ask_clarification_result_generic(st) ==
    [st EXCEPT !.answer = st.answer \o <<NL, NL, GenericClarification>>]

ask_clarification_result(st) ==
    LET clarification ==
            IF st.clarification_question # <<>> THEN st.clarification_question
            ELSE <<GenericClarification>>
    IN  [st EXCEPT !.answer = st.answer \o <<NL, NL>> \o clarification]

(***************************************************************************)
(* The routers.                                                            *)
(***************************************************************************)
\* a variant that always retrieves
route_after_rag_decision_always(st) == "retrieve"

\* a variant with the two edges of the router exchanged
route_after_rag_decision_inverted(st) ==
    IF st.needs_rag THEN "direct" ELSE "retrieve"

route_after_rag_decision(st) == IF st.needs_rag THEN "retrieve" ELSE "direct"

\* a variant that asks for clarification on a low confidence alone
route_after_validation_low_confidence(st) ==
    IF st.confidence < confidence_threshold THEN "clarify" ELSE "complete"

route_after_validation(st) ==
    IF st.needs_clarification /\ st.confidence < confidence_threshold
    THEN "clarify"
    ELSE "complete"

\* a variant in which a requested clarification leads back to generation
EdgeTarget_regenerate(edge) ==
    CASE edge = "retrieve" -> "retrieve_knowledge"
      [] edge = "direct" -> "generate_answer"
      [] edge = "clarify" -> "generate_answer"
      [] edge = "complete" -> "END"

\* a variant in which the direct edge bypasses generation
EdgeTarget_skip_generation(edge) ==
    CASE edge = "retrieve" -> "retrieve_knowledge"
      [] edge = "direct" -> "validate_answer"
      [] edge = "clarify" -> "ask_clarification"
      [] edge = "complete" -> "END"

\* _build_graph: the node an edge leads to
EdgeTarget(edge) ==
    CASE edge = "retrieve" -> "retrieve_knowledge"
      [] edge = "direct" -> "generate_answer"
      [] edge = "clarify" -> "ask_clarification"
      [] edge = "complete" -> "END"

(***************************************************************************)
(* process_message: the response.                                          *)
(***************************************************************************)
\* re.findall(r'Source: (.+?)(?:\n|$)', text): at each "Source: " that is
\* followed by at least one character before the end of its line, the rest
\* of the line; the scan resumes after the match
RECURSIVE re_findall_source(_)
re_findall_source(text) ==
    LET i == IndexFrom(text, "Source: ", 1)
        rest == SubSeq(text, i + 1, Len(text))
        j == IndexFrom(rest, NL, 1)
    IN  IF i > Len(text) THEN <<>>
        ELSE IF j = 1 THEN re_findall_source(rest)
        ELSE <<SubSeq(rest, 1, j - 1)>>
                 \o re_findall_source(SubSeq(rest, j + 1, Len(rest)))

\* process_message: sources
extract_sources(rag_results) ==
    IF rag_results # <<>> THEN re_findall_source(rag_results) ELSE <<>>

\* AgentResponse: confidence: float = Field(ge=0.0, le=1.0)
ValidationErrorMessage == "1 validation error for AgentResponse"

\* a variant that only checks the upper limit
AgentResponseValid_upper_only(confidence) == confidence <= 100

AgentResponseValid(confidence) == confidence >= 0 /\ confidence <= 100

Apology ==
    <<"I apologize, but I encountered an error processing your request. Please try again or contact support.">>

\* a variant that tells the user what went wrong
process_message_except_leaky(msg) ==
    [content |-> Apology \o <<msg>>,
     confidence |-> 0,
     sources |-> <<>>,
     needs_clarification |-> FALSE,
     clarification_question |-> None,
     metadata |-> [error |-> msg]]

\* process_message: the response of the except clause
process_message_except(msg) ==
    [content |-> Apology,
     confidence |-> 0,
     sources |-> <<>>,
     needs_clarification |-> FALSE,
     clarification_question |-> None,
     metadata |-> [error |-> msg]]

\* a variant whose metadata lacks used_rag
process_message_response_partial(final_state) ==
    [content |-> final_state.answer,
     confidence |-> final_state.confidence,
     sources |-> extract_sources(final_state.rag_results),
     needs_clarification |-> final_state.needs_clarification,
     clarification_question |-> final_state.clarification_question,
     metadata |-> [intent |-> final_state.intent]]

\* a variant that reports the heuristic on the intent as used_rag
process_message_response_by_intent(final_state) ==
    [content |-> final_state.answer,
     confidence |-> final_state.confidence,
     sources |-> extract_sources(final_state.rag_results),
     needs_clarification |-> final_state.needs_clarification,
     clarification_question |-> final_state.clarification_question,
     metadata |-> [intent |-> final_state.intent,
                   used_rag |-> intent_may_need_rag(final_state.intent)]]

\* process_message: the response built from the final state
process_message_response(final_state) ==
    [content |-> final_state.answer,
     confidence |-> final_state.confidence,
     sources |-> extract_sources(final_state.rag_results),
     needs_clarification |-> final_state.needs_clarification,
     clarification_question |-> final_state.clarification_question,
     metadata |-> [intent |-> final_state.intent,
                   used_rag |-> final_state.needs_rag]]

\* _build_graph: the nodes of the graph
Nodes ==
    {"classify_intent", "decide_rag", "retrieve_knowledge", "generate_answer",
     "validate_answer", "ask_clarification"}

(***************************************************************************)
(* The state machine.                                                      *)
(***************************************************************************)
Init ==
    /\ pc = "idle"
    /\ state = NoState
    /\ response = NoResponse
    /\ executed = <<>>
    /\ llm_calls = <<>>
    /\ retriever_calls = 0
    /\ store_raised = FALSE
    /\ retrieved = <<>>
    /\ routes = <<>>
    /\ gen_prompt = <<>>
    /\ validator_reply = None
    /\ raised_in = ""
    /\ turns = <<>>

\* a variant in which the failed step is attempted again
Except_retry(where, msg) ==
    /\ pc' = where
    /\ response' = response
    /\ raised_in' = where

\* the except clause of process_message, entered from `where`
Except(where, msg) ==
    /\ pc' = "done"
    /\ response' = process_message_except(msg)
    /\ raised_in' = where

\* a node returned `update` and the graph moves to `next`
NodeReturns(update, next) ==
    /\ state' = ApplyUpdate(state, update)
    /\ pc' = next
    /\ UNCHANGED <<response, raised_in>>

\* process_message up to the start of the graph
process_message_start ==
    /\ pc = "idle"
    /\ \E user_message \in UserMessages :
        state' = ApplyUpdate([messages |-> <<>>], initial_state(user_message))
    /\ pc' = "classify_intent"
    /\ UNCHANGED <<turns, response, executed, llm_calls, retriever_calls,
                   store_raised, retrieved, routes, gen_prompt, validator_reply, raised_in>>

classify_intent ==
    /\ pc = "classify_intent"
    /\ executed' = Append(executed, "classify_intent")
    /\ llm_calls' = Append(llm_calls, "classify_intent")
    /\ \E o \in LLMOutcomes(ClassifierReplies) :
        IF o.raised
        THEN Except("classify_intent", o.error) /\ UNCHANGED state
        ELSE NodeReturns(classify_intent_result(state, o.value), "decide_rag")
    /\ UNCHANGED <<turns, retriever_calls, store_raised, retrieved, routes, gen_prompt,
                   validator_reply>>

decide_rag ==
    /\ pc = "decide_rag"
    /\ executed' = Append(executed, "decide_rag")
    /\ IF intent_may_need_rag(state.intent)
       THEN /\ llm_calls' = Append(llm_calls, "decide_rag")
            /\ \E o \in LLMOutcomes(GateReplies) :
                IF o.raised
                THEN /\ Except("decide_rag", o.error)
                     /\ UNCHANGED <<state, routes>>
                ELSE LET update ==
                             [state EXCEPT !.needs_rag = gate_reply_is_yes(o.value)]
                         edge == route_after_rag_decision(ApplyUpdate(state, update))
                     IN  /\ NodeReturns(update, EdgeTarget(edge))
                         /\ routes' = Append(routes, edge)
       ELSE LET update == [state EXCEPT !.needs_rag = FALSE]
                edge == route_after_rag_decision(ApplyUpdate(state, update))
            IN  /\ NodeReturns(update, EdgeTarget(edge))
                /\ routes' = Append(routes, edge)
                /\ UNCHANGED llm_calls
    /\ UNCHANGED <<turns, retriever_calls, store_raised, retrieved, gen_prompt,
                   validator_reply>>

retrieve_knowledge ==
    /\ pc = "retrieve_knowledge"
    /\ executed' = Append(executed, "retrieve_knowledge")
    /\ retriever_calls' = retriever_calls + 1
    /\ \E o \in StoreOutcomes :
        LET rag_results == RAGTool_run(o)
        IN  /\ store_raised' = o.raised
            /\ retrieved' = similarity_search(o).value
            /\ IF rag_results.raised
               THEN Except("retrieve_knowledge", rag_results.error) /\ UNCHANGED state
               ELSE NodeReturns([state EXCEPT !.rag_results = rag_results.value],
                                "generate_answer")
    /\ UNCHANGED <<turns, llm_calls, routes, gen_prompt, validator_reply>>

generate_answer ==
    /\ pc = "generate_answer"
    /\ executed' = Append(executed, "generate_answer")
    /\ llm_calls' = Append(llm_calls, "generate_answer")
    /\ gen_prompt' = generate_answer_prompt(state)
    /\ \E o \in LLMOutcomes(GeneratorReplies) :
        IF o.raised
        THEN Except("generate_answer", o.error) /\ UNCHANGED state
        ELSE NodeReturns(generate_answer_result(state, o.value), "validate_answer")
    /\ UNCHANGED <<turns, retriever_calls, store_raised, retrieved, routes,
                   validator_reply>>

validate_answer ==
    /\ pc = "validate_answer"
    /\ executed' = Append(executed, "validate_answer")
    /\ llm_calls' = Append(llm_calls, "validate_answer")
    /\ \E o \in LLMOutcomes(ValidatorReplies) :
        IF o.raised
        THEN /\ Except("validate_answer", o.error)
             /\ UNCHANGED <<state, routes, validator_reply>>
        ELSE LET parsed == parse_validation(o.value)
             IN  /\ validator_reply' = o.value
                 /\ IF parsed.raised
                    THEN /\ Except("validate_answer", parsed.error)
                         /\ UNCHANGED <<state, routes>>
                    ELSE LET update == validate_answer_result(state, parsed.value)
                             edge == route_after_validation(ApplyUpdate(state, update))
                         IN  /\ NodeReturns(update, EdgeTarget(edge))
                             /\ routes' = Append(routes, edge)
    /\ UNCHANGED <<turns, retriever_calls, store_raised, retrieved, gen_prompt>>

ask_clarification ==
    /\ pc = "ask_clarification"
    /\ executed' = Append(executed, "ask_clarification")
    /\ NodeReturns(ask_clarification_result(state), "END")
    /\ UNCHANGED <<turns, llm_calls, retriever_calls, store_raised, retrieved, routes,
                   gen_prompt, validator_reply>>

\* process_message after the graph has ended
process_message_return ==
    /\ pc = "END"
    /\ IF AgentResponseValid(state.confidence)
       THEN /\ response' = process_message_response(state)
            /\ pc' = "done"
            /\ UNCHANGED raised_in
       ELSE Except("process_message", ValidationErrorMessage)
    /\ UNCHANGED <<turns, state, executed, llm_calls, retriever_calls, store_raised,
                   retrieved, routes, gen_prompt, validator_reply>>

Next ==
    \/ process_message_start
    \/ classify_intent
    \/ decide_rag
    \/ retrieve_knowledge
    \/ generate_answer
    \/ validate_answer
    \/ ask_clarification
    \/ process_message_return

Spec == Init /\ [][Next]_vars

(***************************************************************************)
(* Several process_message calls in progress on the one support_agent      *)
(* instance, interleaved at the boundaries of the nodes.  Each call has    *)
(* its own initial_state dictionary, which graph.invoke threads through    *)
(* the nodes; the instance holds the model client and the compiled graph   *)
(* only.  A turn records the outcomes its collaborators gave it.           *)
(***************************************************************************)
MaxTurns == 2     \* process_message calls in progress at once

Turns == 1..MaxTurns

\* the user_message of each call
TurnQuery(t) ==
    IF t = 1 THEN <<"What is your return policy?">> ELSE <<"Hi there!">>

\* a call that has not started
FreshTurn(t) ==
    [pc |-> "idle", query |-> TurnQuery(t), state |-> NoState,
     response |-> NoResponse, replies |-> <<>>,
     executed |-> <<>>, llm_calls |-> <<>>]

\* the outcome of a step that calls no collaborator
NoCall == Return(None)

ConcurrentLLMOutcomes(replies) ==
    { Return(r) : r \in replies } \cup { Raise("Connection error.") }

ConcurrentStoreOutcomes ==
    { Return(<<>>) } \cup { Return(<<h>>) : h \in { g \in Hits : g.score = 90 } }

ConcurrentValidatorReplies ==
    { ClarificationFlag \o <<NL, "CONFIDENCE", ":", " ", "0.5">>,
      <<"CONFIDENCE", ":", " ", "0.92">> }

\* what the collaborator called at the position of a turn may give
Inputs(turn) ==
    CASE turn.pc = "classify_intent" ->
            ConcurrentLLMOutcomes({ <<"greeting">>, <<"question">> })
      [] turn.pc = "decide_rag" ->
            IF intent_may_need_rag(turn.state.intent)
            THEN ConcurrentLLMOutcomes({ <<"yes">>, <<"no">> })
            ELSE {NoCall}
      [] turn.pc = "retrieve_knowledge" -> ConcurrentStoreOutcomes
      [] turn.pc = "generate_answer" ->
            ConcurrentLLMOutcomes({ r \in GeneratorReplies : r # <<>> })
      [] turn.pc = "validate_answer" ->
            ConcurrentLLMOutcomes(ConcurrentValidatorReplies)
      [] OTHER -> {NoCall}

\* the except clause of process_message
Failed(turn, msg) ==
    [turn EXCEPT !.pc = "done", !.response = process_message_except(msg)]

\* a node returned `update` and the graph moves to `next`
Moved(turn, update, next) ==
    [turn EXCEPT !.state = ApplyUpdate(turn.state, update), !.pc = next]

\* the node at the position of the turn calls self.llm.invoke
CallsModel(turn) ==
    \/ turn.pc \in {"classify_intent", "generate_answer", "validate_answer"}
    \/ turn.pc = "decide_rag" /\ intent_may_need_rag(turn.state.intent)

\* the turn with the node at its position, and the model call of that node,
\* entered in its history
Logged(turn) ==
    [turn EXCEPT
        !.executed = IF turn.pc \in Nodes THEN Append(@, turn.pc) ELSE @,
        !.llm_calls = IF CallsModel(turn) THEN Append(@, turn.pc) ELSE @]

\* one step of process_message from the position of the turn, its
\* collaborator giving o
Advance(turn, o) ==
    LET st == turn.state
        run == Logged(turn)
    IN  CASE turn.pc = "idle" ->
                [turn EXCEPT
                    !.state = ApplyUpdate([messages |-> <<>>],
                                          initial_state(turn.query)),
                    !.pc = "classify_intent"]
          [] turn.pc = "classify_intent" ->
                IF o.raised THEN Failed(run, o.error)
                ELSE Moved(run, classify_intent_result(st, o.value), "decide_rag")
          [] turn.pc = "decide_rag" ->
                IF intent_may_need_rag(st.intent) /\ o.raised
                THEN Failed(run, o.error)
                ELSE LET update ==
                             [st EXCEPT !.needs_rag =
                                 intent_may_need_rag(st.intent)
                                     /\ gate_reply_is_yes(o.value)]
                         edge == route_after_rag_decision(ApplyUpdate(st, update))
                     IN  Moved(run, update, EdgeTarget(edge))
          [] turn.pc = "retrieve_knowledge" ->
                LET rag_results == RAGTool_run(o)
                IN  IF rag_results.raised THEN Failed(run, rag_results.error)
                    ELSE Moved(run, [st EXCEPT !.rag_results = rag_results.value],
                               "generate_answer")
          [] turn.pc = "generate_answer" ->
                IF o.raised THEN Failed(run, o.error)
                ELSE Moved(run, generate_answer_result(st, o.value),
                           "validate_answer")
          [] turn.pc = "validate_answer" ->
                IF o.raised THEN Failed(run, o.error)
                ELSE LET parsed == parse_validation(o.value)
                     IN  IF parsed.raised THEN Failed(run, parsed.error)
                         ELSE LET update == validate_answer_result(st, parsed.value)
                                  edge == route_after_validation(
                                              ApplyUpdate(st, update))
                              IN  Moved(run, update, EdgeTarget(edge))
          [] turn.pc = "ask_clarification" ->
                Moved(run, ask_clarification_result(st), "END")
          [] turn.pc = "END" ->
                IF AgentResponseValid(st.confidence)
                THEN [turn EXCEPT !.response = process_message_response(st),
                                  !.pc = "done"]
                ELSE Failed(run, ValidationErrorMessage)

\* a variant in which the state of the run is kept on the instance
OwnTurn_on_instance(all, t) == all[1]

\* the state a step of call t works on: the dictionary process_message
\* created for that call
OwnTurn(all, t) == all[t]

\* call t takes its step with outcome o
TurnAdvances(t, o) ==
    /\ turns' = [turns EXCEPT ![t] =
                    [Advance(OwnTurn(turns, t), o) EXCEPT
                        !.replies = Append(turns[t].replies, o)]]
    /\ UNCHANGED <<pc, state, response, executed, llm_calls, retriever_calls,
                   store_raised, retrieved, routes, gen_prompt, validator_reply,
                   raised_in>>

\* process_message up to the start of the graph, for call t
turn_start(t) ==
    /\ OwnTurn(turns, t).pc = "idle"
    /\ TurnAdvances(t, NoCall)

\* the node at which call t stands runs
turn_node(t) ==
    /\ OwnTurn(turns, t).pc \in Nodes
    /\ \E o \in Inputs(OwnTurn(turns, t)) : TurnAdvances(t, o)

\* process_message after the graph has ended, for call t
turn_return(t) ==
    /\ OwnTurn(turns, t).pc = "END"
    /\ TurnAdvances(t, NoCall)

ConcurrentInit ==
    /\ pc = "idle"
    /\ state = NoState
    /\ response = NoResponse
    /\ executed = <<>>
    /\ llm_calls = <<>>
    /\ retriever_calls = 0
    /\ store_raised = FALSE
    /\ retrieved = <<>>
    /\ routes = <<>>
    /\ gen_prompt = <<>>
    /\ validator_reply = None
    /\ raised_in = ""
    /\ turns = [t \in Turns |-> FreshTurn(t)]

ConcurrentNext ==
    \E t \in Turns :
        \/ turn_start(t)
        \/ turn_node(t)
        \/ turn_return(t)

ConcurrentSpec == ConcurrentInit /\ [][ConcurrentNext]_vars

(***************************************************************************)
(* One process_message call with the outcomes of its collaborators         *)
(* recorded, step by step, in the turn.  The replies of the classifier,    *)
(* of the gate and of the store are explored in full; the validator's      *)
(* reply is explored over a wider set of lines after two beginnings of the *)
(* run (one without and one with a retrieval) and over a few replies after *)
(* every other beginning.                                                  *)
(***************************************************************************)
RichGateReplies == GateReplies \cup { <<"Yes, it does">> }

RichValidatorLines ==
    ValidatorLines
        \cup { <<"CONFIDENCE", ":", " ", "-0.2">>,
               <<"CLARIFICATION_NEEDED", ":", " ", "Yes">>,
               <<"CLARIFICATION_QUESTION", ":", " ">> }

\* a reply of up to MaxLines lines, none repeated verbatim
RichValidatorReplies ==
    { Join(ls, NL) :
        ls \in UNION { { l \in [1..n -> RichValidatorLines] :
                            \A i, j \in 1..n : l[i] = l[j] => i = j }
                        : n \in 0..MaxLines } }

\* the outcomes of the two beginnings after which the validator's reply is
\* explored over RichValidatorReplies
FocusBeginnings ==
    { <<NoCall, Return(<<"greeting">>), NoCall,
        Return(<<"You can return items within 30 days.">>)>>,
      <<NoCall, Return(<<"question">>), Return(<<"yes">>),
        Return(<< CHOOSE g \in Hits : g.score = 90 >>),
        Return(<<"You can return items within 30 days.">>)>> }

\* what the collaborator called at the position of the recorded call may give
RecordedInputs(turn) ==
    CASE turn.pc = "classify_intent" -> LLMOutcomes(ClassifierReplies)
      [] turn.pc = "decide_rag" ->
            IF intent_may_need_rag(turn.state.intent)
            THEN LLMOutcomes(RichGateReplies)
            ELSE {NoCall}
      [] turn.pc = "retrieve_knowledge" -> StoreOutcomes
      [] turn.pc = "generate_answer" -> LLMOutcomes(GeneratorReplies)
      [] turn.pc = "validate_answer" ->
            IF turn.replies \in FocusBeginnings
            THEN LLMOutcomes(RichValidatorReplies)
            ELSE LLMOutcomes(ConcurrentValidatorReplies)
      [] OTHER -> {NoCall}

\* process_message up to the start of the graph
call_start ==
    /\ turns[1].pc = "idle"
    /\ TurnAdvances(1, NoCall)

\* the node at which the call stands runs
call_node ==
    /\ turns[1].pc \in Nodes
    /\ \E o \in RecordedInputs(turns[1]) : TurnAdvances(1, o)

\* process_message after the graph has ended
call_return ==
    /\ turns[1].pc = "END"
    /\ TurnAdvances(1, NoCall)

RecordedInit ==
    /\ pc = "idle"
    /\ state = NoState
    /\ response = NoResponse
    /\ executed = <<>>
    /\ llm_calls = <<>>
    /\ retriever_calls = 0
    /\ store_raised = FALSE
    /\ retrieved = <<>>
    /\ routes = <<>>
    /\ gen_prompt = <<>>
    /\ validator_reply = None
    /\ raised_in = ""
    /\ turns = <<FreshTurn(1)>>

RecordedNext ==
    \/ call_start
    \/ call_node
    \/ call_return

RecordedSpec == RecordedInit /\ [][RecordedNext]_vars

(***************************************************************************)
(* Vocabulary of the properties.                                           *)
(***************************************************************************)
Range(seq) == { seq[i] : i \in 1..Len(seq) }

Ran(node) == node \in Range(executed)

\* process_message has returned
Returned == pc = "done"

\* process_message has returned the response built from the final state
Succeeded == pc = "done" /\ raised_in = ""

\* the response of the except clause, for some failure detail
IsFallback(r) ==
    /\ r.content = Apology
    /\ r.confidence = 0
    /\ r.sources = <<>>
    /\ r.needs_clarification = FALSE
    /\ DOMAIN r.metadata = {"error"}

\* the validator's reply has been received and parsed without a ValueError
Validated == Ran("validate_answer") /\ raised_in # "validate_answer"

(***************************************************************************)
(* C1: when the classified intent is "greeting" or "other", decide_rag     *)
(* sets needs_rag to false without calling the model, the router takes the *)
(* "direct" edge, and the retriever is never invoked in that run.          *)
(***************************************************************************)
C1_NoRetrievalForGreetingOrOther ==
    (Ran("decide_rag") /\ state.intent \in { <<"greeting">>, <<"other">> }) =>
        /\ state.needs_rag = FALSE
        /\ "decide_rag" \notin Range(llm_calls)
        /\ routes # <<>> /\ routes[1] = "direct"
        /\ ~Ran("retrieve_knowledge")
        /\ retriever_calls = 0
        /\ retrieved = <<>>

C1_Witness ==
    /\ Succeeded
    /\ state.intent = <<"other">>
    /\ Ran("generate_answer")
    /\ llm_calls = <<"classify_intent", "generate_answer", "validate_answer">>

(***************************************************************************)
(* C2: double gating.  In every state of a run and in every response       *)
(* returned, needs_clarification is true only if confidence is below       *)
(* confidence_threshold; a reply with "CLARIFICATION_NEEDED: yes" and a    *)
(* confidence at or above the threshold yields needs_clarification false.  *)
(***************************************************************************)
C2_DoubleGating ==
    /\ pc # "idle" =>
        (state.needs_clarification => state.confidence < confidence_threshold)
    /\ (Validated /\ parse_needs_clarification(validator_reply)
            /\ state.confidence >= confidence_threshold) =>
        state.needs_clarification = FALSE
    /\ Returned =>
        (response.needs_clarification => response.confidence < confidence_threshold)

C2_Witness ==
    /\ Succeeded
    /\ Contains(validator_reply, ClarificationFlag)
    /\ state.confidence = confidence_threshold
    /\ response.confidence = confidence_threshold
    /\ response.needs_clarification = FALSE

(***************************************************************************)
(* C3: turn-level fallback.  Whenever a node or the assembly of the        *)
(* response raises, process_message returns (it does not raise) the fixed  *)
(* apology with confidence 0.0, no sources and needs_clarification false;  *)
(* the failure detail is in metadata.error only, never in content.         *)
(***************************************************************************)
C3_TurnLevelFallback ==
    /\ Returned => response # NoResponse
    /\ raised_in # "" =>
        /\ Returned
        /\ IsFallback(response)
        /\ response.content = Apology
        /\ response.metadata.error
               \in LLMErrors \cup {ValueErrorMessage, ValidationErrorMessage}
        /\ ~Contains(response.content, <<response.metadata.error>>)

C3_Witness ==
    /\ raised_in = "process_message"
    /\ Returned
    /\ state.answer # <<>>
    /\ response.metadata.error = ValidationErrorMessage

\* the text after the first colon of the first line containing "CONFIDENCE:"
TextAfterConfidenceColon(validation) ==
    Strip(SplitOnce(confidence_lines(validation)[1], ":")[2])

MalformedConfidence(validation) ==
    /\ confidence_lines(validation) # <<>>
    /\ ~FloatParses(TextAfterConfidenceColon(validation))

(***************************************************************************)
(* C4: if the line of the validator's reply that carries "CONFIDENCE:"     *)
(* (the first such line, the one the parse reads) has, after that colon, a *)
(* text that is not a valid decimal, the turn fails: validate_answer       *)
(* raises, ask_clarification does not run, and process_message returns the *)
(* fallback, not a response with the generated answer.                     *)
(***************************************************************************)
C4_MalformedConfidenceFailsTurn ==
    (validator_reply # None /\ MalformedConfidence(validator_reply)) =>
        /\ raised_in = "validate_answer"
        /\ ~Ran("ask_clarification")
        /\ Returned
        /\ IsFallback(response)

(***************************************************************************)
(* C5: when no line of the validator's reply contains "CONFIDENCE:",       *)
(* validate_answer sets confidence to exactly 0.8, the turn does not fail, *)
(* and the response returned carries confidence 0.8.                       *)
(***************************************************************************)
C5_MissingConfidenceDefaults ==
    (validator_reply # None /\ confidence_lines(validator_reply) = <<>>) =>
        /\ raised_in = ""
        /\ state.confidence = 80
        /\ Returned =>
            /\ response.confidence = 80
            /\ ~IsFallback(response)
            /\ response.content = state.answer

C5_Witness ==
    /\ Succeeded
    /\ validator_reply = ClarificationFlag
    /\ response.confidence = 80

\* [d.source for d in results]
SourcesOf(results) == [i \in 1..Len(results) |-> results[i].source]

(***************************************************************************)
(* C6: on a successful turn in which the retriever returned the documents  *)
(* d1..dn, the sources of the response are exactly d1.source, ...,         *)
(* dn.source, in that order, and nothing else.                             *)
(***************************************************************************)
C6_SourcesAreTheRetrievedSources ==
    (Succeeded /\ Ran("retrieve_knowledge")) =>
        response.sources = SourcesOf(retrieved)

(***************************************************************************)
(* C7: a failure of the vector store during the search never crashes the   *)
(* turn: retrieve_knowledge does not raise, the run goes on through        *)
(* generate_answer and validate_answer, and, no later step raising,        *)
(* process_message returns the response built from the final state, with   *)
(* no metadata.error.                                                      *)
(***************************************************************************)
C7_RetrievalFailureDoesNotCrash ==
    store_raised =>
        /\ Ran("retrieve_knowledge")
        /\ raised_in \in {"", "generate_answer", "validate_answer", "process_message"}
        /\ pc \in {"generate_answer", "validate_answer", "ask_clarification",
                   "END", "done"}
        /\ Succeeded =>
            /\ Ran("generate_answer") /\ Ran("validate_answer")
            /\ ~IsFallback(response)
            /\ "error" \notin DOMAIN response.metadata
            /\ response.content = state.answer

C7_Witness ==
    /\ store_raised
    /\ Succeeded
    /\ response.metadata.used_rag = TRUE
    /\ response.confidence = 92

(***************************************************************************)
(* C8: after a failed retrieval the retrieval step yields an empty result  *)
(* set and generate_answer builds its prompt on the general-knowledge      *)
(* path: the prompt has the general-knowledge instruction and no           *)
(* "Knowledge Base Results" block.                                         *)
(***************************************************************************)
C8_FailedRetrievalUsesGeneralKnowledge ==
    (store_raised /\ Ran("generate_answer")) =>
        /\ retrieved = <<>>
        /\ Contains(gen_prompt, <<GeneralKnowledgeInstruction>>)
        /\ ~Contains(gen_prompt, <<"Knowledge Base Results:">>)

\* no node runs twice, nothing follows ask_clarification, nothing leads back
C9_Acyclic ==
    /\ Range(executed) \subseteq Nodes
    /\ Len(executed) <= 6
    /\ \A i, j \in 1..Len(executed) : executed[i] = executed[j] => i = j
    /\ \A i \in 1..Len(executed) :
        executed[i] = "ask_clarification" =>
            i = Len(executed) /\ pc \in {"END", "done"}
    /\ \A i, j \in 1..Len(executed) :
        (executed[i] = "validate_answer" /\ i < j) =>
            executed[j] # "generate_answer"
    /\ Ran("validate_answer") => pc # "generate_answer"

\* the number of steps process_message can still take from a position
StepsLeft(position) ==
    CASE position = "idle" -> 8
      [] position = "classify_intent" -> 7
      [] position = "decide_rag" -> 6
      [] position = "retrieve_knowledge" -> 5
      [] position = "generate_answer" -> 4
      [] position = "validate_answer" -> 3
      [] position = "ask_clarification" -> 2
      [] position = "END" -> 1
      [] position = "done" -> 0

(***************************************************************************)
(* C9: the graph is acyclic and every run terminates.  Each of the six     *)
(* nodes runs at most once per run, at most 6 node executions occur,       *)
(* ask_clarification is followed only by the end, generate_answer is never *)
(* entered again after validate_answer.  Every run terminates: no run goes *)
(* on for ever, since every step (a collaborator call returning or         *)
(* raising) leaves fewer steps before process_message returns.             *)
(***************************************************************************)
C9_AcyclicAndTerminates ==
    /\ []C9_Acyclic
    /\ [][StepsLeft(pc') < StepsLeft(pc)]_vars

C9_Witness ==
    /\ Succeeded
    /\ executed = <<"classify_intent", "decide_rag", "retrieve_knowledge",
                    "generate_answer", "validate_answer", "ask_clarification">>
    /\ state.needs_clarification

(***************************************************************************)
(* C10, as stated: in every completed run exactly one of                   *)
(* retrieve_knowledge and ask_clarification runs, never both and never     *)
(* neither.                                                                *)
(***************************************************************************)
C10_ExactlyOneOptionalNode ==
    Succeeded => (Ran("retrieve_knowledge") <=> ~Ran("ask_clarification"))

\* the place of a node in the run
Position(node) == CHOOSE i \in 1..Len(executed) : executed[i] = node

(***************************************************************************)
(* C10, amended: in every completed run each of the two optional nodes     *)
(* runs at most once and exactly when the router right before it chose it: *)
(* retrieve_knowledge, directly after decide_rag, iff needs_rag;           *)
(* ask_clarification, directly after validate_answer, iff                  *)
(* needs_clarification with confidence below the threshold.  The two       *)
(* choices are independent: a run may execute both, one or neither.        *)
(***************************************************************************)
C10_EachOptionalNodeByItsRouter ==
    Returned =>
        /\ Ran("retrieve_knowledge") <=>
            (Ran("decide_rag") /\ raised_in # "decide_rag" /\ state.needs_rag)
        /\ Ran("retrieve_knowledge") =>
            /\ routes[1] = "retrieve"
            /\ Position("retrieve_knowledge") = Position("decide_rag") + 1
        /\ Ran("ask_clarification") <=>
            (Validated /\ state.needs_clarification
                /\ state.confidence < confidence_threshold)
        /\ Ran("ask_clarification") =>
            /\ routes[2] = "clarify"
            /\ Position("ask_clarification") = Position("validate_answer") + 1
        /\ \A i, j \in 1..Len(executed) : executed[i] = executed[j] => i = j

C10_Witness ==
    /\ Succeeded
    /\ Ran("retrieve_knowledge")
    /\ Ran("ask_clarification")
    /\ routes = <<"retrieve", "clarify">>

\* s is an initial part of t
IsPrefix(s, t) == Len(s) <= Len(t) /\ SubSeq(t, 1, Len(s)) = s

\* the two longest orders in which _build_graph lets the nodes run
NodeOrders ==
    { <<"classify_intent", "decide_rag", "retrieve_knowledge", "generate_answer",
        "validate_answer", "ask_clarification">>,
      <<"classify_intent", "decide_rag", "generate_answer", "validate_answer",
        "ask_clarification">> }

\* the labels classify_intent can store: response.content.strip().lower()
ClassifierLabels == { Lower(Strip(r)) : r \in ClassifierReplies }

\* the text the model returned to generate_answer, as the node recorded it
\* in the AIMessage it appended to messages
GeneratedText == state.messages[Len(state.messages)].content

(***************************************************************************)
(* C11: node ordering.  In every run the executed nodes are an initial     *)
(* part of classify_intent, decide_rag, [retrieve_knowledge],              *)
(* generate_answer, validate_answer, [ask_clarification], in that order.   *)
(* When decide_rag is about to run, classify_intent has run and has set    *)
(* intent; when generate_answer is about to run after a retrieval, the     *)
(* retrieval has completed and stored its text; when validate_answer is    *)
(* about to run or has run, generate_answer has run before it and has set  *)
(* answer.                                                                 *)
(***************************************************************************)
C11_NodeOrdering ==
    /\ \E order \in NodeOrders : IsPrefix(executed, order)
    /\ pc = "decide_rag" =>
        /\ executed = <<"classify_intent">>
        /\ state.intent \in ClassifierLabels
    /\ (pc = "generate_answer" /\ Ran("retrieve_knowledge")) =>
        /\ executed[Len(executed)] = "retrieve_knowledge"
        /\ state.rag_results # <<>>
    /\ pc = "validate_answer" =>
        /\ executed[Len(executed)] = "generate_answer"
        /\ state.answer = GeneratedText
    /\ Ran("validate_answer") =>
        /\ Ran("generate_answer")
        /\ Position("generate_answer") < Position("validate_answer")

C11_Witness ==
    /\ Succeeded
    /\ executed = <<"classify_intent", "decide_rag", "generate_answer",
                    "validate_answer">>
    /\ state.intent = <<"billing">>
    /\ state.answer # <<>>

(***************************************************************************)
(* C12: on every success path the answer is not empty when the turn ends:  *)
(* the content of the response process_message returns is a non-empty      *)
(* text, whatever text the model returned to generate_answer.              *)
(***************************************************************************)
C12_AnswerNonEmptyOnSuccess ==
    Succeeded =>
        /\ state.answer # <<>>
        /\ response.content # <<>>

\* the number of times a node has run
TimesRan(node) == Cardinality({ i \in 1..Len(executed) : executed[i] = node })

\* rag_results is not empty only under needs_rag and after the one retrieval
C13_PopulatedOnlyIfNeeded ==
    pc # "idle" =>
        /\ state.rag_results # <<>> =>
            (state.needs_rag /\ Ran("retrieve_knowledge"))
        /\ TimesRan("retrieve_knowledge") <= 1
        /\ retriever_calls = TimesRan("retrieve_knowledge")

\* a step that changes rag_results is the step of retrieve_knowledge, taken
\* after decide_rag set needs_rag, on a rag_results never written before
C13_WrittenByRetrieverOnly ==
    (pc # "idle" /\ state'.rag_results # state.rag_results) =>
        /\ pc = "retrieve_knowledge"
        /\ Ran("decide_rag")
        /\ state.needs_rag
        /\ state.rag_results = <<>>
        /\ ~Ran("retrieve_knowledge")

(***************************************************************************)
(* C13: in every state of a run rag_results is non-empty only if needs_rag *)
(* is true; rag_results is written at most once in a run, only by          *)
(* retrieve_knowledge, and only after decide_rag has set needs_rag to      *)
(* true.                                                                   *)
(***************************************************************************)
C13_RetrievedOnlyIfNeeded ==
    /\ []C13_PopulatedOnlyIfNeeded
    /\ [][C13_WrittenByRetrieverOnly]_vars

C13_Witness ==
    /\ pc = "generate_answer"
    /\ state.needs_rag
    /\ Len(retrieved) = 2
    /\ Contains(state.rag_results, <<"Found ", "2">>)

ResponseFields ==
    {"content", "confidence", "sources", "needs_clarification",
     "clarification_question", "metadata"}

\* the response carries the terminal answer, the validator's confidence and
\* a metadata of exactly intent and used_rag
IsFullResponse(r) ==
    /\ DOMAIN r = ResponseFields
    /\ r.content = state.answer
    /\ Validated
    /\ r.confidence = parse_confidence(validator_reply).value
    /\ r.sources = extract_sources(state.rag_results)
    /\ DOMAIN r.metadata = {"intent", "used_rag"}
    /\ r.metadata.intent = state.intent
    /\ r.metadata.used_rag = state.needs_rag

\* the response shows nothing the run had computed when it failed
ExposesNothing(r) ==
    /\ state.answer # <<>> => ~Contains(r.content, state.answer)
    /\ state.intent # <<>> =>
        /\ ~Contains(r.content, state.intent)
        /\ ~Contains(<<r.metadata.error>>, state.intent)
    /\ "intent" \notin DOMAIN r.metadata
    /\ "used_rag" \notin DOMAIN r.metadata
    /\ r.sources = <<>>
    /\ r.clarification_question = None

(***************************************************************************)
(* C14: no partial responses.  Every value process_message returns is      *)
(* either the full response (content equal to the terminal answer, the     *)
(* confidence of the validator, metadata with intent and used_rag and no   *)
(* error key) or the fallback (the apology, confidence 0.0, no sources,    *)
(* metadata with error only); a failure after generate_answer produced an  *)
(* answer never shows that answer, the intent or the retrieved sources in  *)
(* the response.                                                           *)
(***************************************************************************)
C14_NoPartialResponses ==
    Returned =>
        /\ DOMAIN response = ResponseFields
        /\ IF raised_in = ""
           THEN IsFullResponse(response) /\ ~IsFallback(response)
           ELSE IsFallback(response) /\ ~IsFullResponse(response)
        /\ (raised_in # "" /\ Ran("generate_answer")) => ExposesNothing(response)

C14_Witness ==
    /\ Returned
    /\ raised_in = "validate_answer"
    /\ validator_reply # None
    /\ state.answer # <<>>
    /\ extract_sources(state.rag_results) # <<>>
    /\ IsFallback(response)

\* the number of model calls a node has issued
TimesCalledModel(node) ==
    Cardinality({ i \in 1..Len(llm_calls) : llm_calls[i] = node })

\* a node raised: it was the last node to run, it ran once and called the
\* model at most once, and process_message has returned the fallback
C15_AbortedAtTheFailure ==
    raised_in \in Nodes =>
        /\ pc = "done"
        /\ executed[Len(executed)] = raised_in
        /\ TimesRan(raised_in) = 1
        /\ TimesCalledModel(raised_in) = 1
        /\ llm_calls[Len(llm_calls)] = raised_in
        /\ IsFallback(response)
        /\ raised_in \in {"classify_intent", "decide_rag"} =>
            (retriever_calls = 0 /\ ~Ran("retrieve_knowledge"))
        /\ raised_in \in {"classify_intent", "decide_rag", "generate_answer"} =>
            ~Ran("validate_answer")
        /\ ~Ran("ask_clarification")

\* no step of the run starts after a raise; the step that raises ends the run
C15_NothingAfterTheFailure ==
    /\ raised_in = ""
    /\ raised_in' # "" =>
        /\ pc' = "done"
        /\ state' = state
        /\ Len(executed') <= Len(executed) + 1
        /\ Len(llm_calls') <= Len(llm_calls) + 1
        /\ retriever_calls' = retriever_calls

(***************************************************************************)
(* C15: a failure of a model call in any node is not retried and aborts    *)
(* the rest of the turn: after the call raises, that node's call is not    *)
(* issued a second time and no later node of the graph, the retriever      *)
(* included, runs before the fallback response is returned.                *)
(***************************************************************************)
C15_ModelFailureAbortsTurn ==
    /\ []C15_AbortedAtTheFailure
    /\ [][C15_NothingAfterTheFailure]_vars

C15_Witness ==
    /\ raised_in = "decide_rag"
    /\ response.metadata.error = "Connection error."
    /\ executed = <<"classify_intent", "decide_rag">>
    /\ llm_calls = <<"classify_intent", "decide_rag">>
    /\ retriever_calls = 0

(***************************************************************************)
(* C16: when the model call inside classify_intent raises, the response    *)
(* process_message returns is the apology with confidence 0.0 and its      *)
(* metadata.error is a non-empty text, for every error the model client    *)
(* can raise, one with an empty message included.                          *)
(***************************************************************************)
C16_ClassifierFailureReportsError ==
    raised_in = "classify_intent" =>
        /\ Returned
        /\ response.content = Apology
        /\ response.confidence = 0
        /\ response.metadata.error # ""

\* the decimals of FloatLiterals that lie in [0, 1]
UnitFloatLiterals == { t \in FloatLiterals : FloatValue(t) >= 0 /\ FloatValue(t) <= 100 }

\* the lines of a reply that start with a key and its colon
LinesOf(validation, key) ==
    SelectSeq(Split(validation, NL),
              LAMBDA line : Len(line) >= 2 /\ line[1] = key /\ line[2] = ":")

\* the reply states "CLARIFICATION_NEEDED: no" and "CONFIDENCE: c", each on
\* the one line of that key
StatesNoClarification(validation, c) ==
    /\ LinesOf(validation, "CLARIFICATION_NEEDED")
           = << <<"CLARIFICATION_NEEDED", ":", " ", "no">> >>
    /\ LinesOf(validation, "CONFIDENCE") = << <<"CONFIDENCE", ":", " ", c>> >>

(***************************************************************************)
(* C17: for a validator reply that states "CLARIFICATION_NEEDED: no" and   *)
(* "CONFIDENCE: c" with c a decimal in [0, 1], the response has confidence *)
(* c and needs_clarification false, ask_clarification does not run, and    *)
(* the content of the response is the text the model returned to           *)
(* generate_answer, verbatim, with nothing appended.                       *)
(***************************************************************************)
C17_ConfidentValidationKeepsAnswer ==
    \A c \in UnitFloatLiterals :
        (validator_reply # None /\ StatesNoClarification(validator_reply, c)) =>
            /\ raised_in = ""
            /\ state.confidence = FloatValue(c)
            /\ state.needs_clarification = FALSE
            /\ routes[Len(routes)] = "complete"
            /\ ~Ran("ask_clarification")
            /\ state.answer = GeneratedText
            /\ pc \in {"END", "done"}
            /\ Returned =>
                /\ response.confidence = FloatValue(c)
                /\ response.needs_clarification = FALSE
                /\ response.content = GeneratedText

C17_Witness ==
    /\ Succeeded
    /\ validator_reply = <<"CLARIFICATION_NEEDED", ":", " ", "no", NL,
                           "CONFIDENCE", ":", " ", "0.5">>
    /\ response.confidence = 50
    /\ response.content = <<"You can return items within 30 days.">>

\* on a successful turn the metadata tells the label and whether the
\* retrieval ran; without a retrieval there are no sources
C18_MetadataOfSuccess ==
    Succeeded =>
        /\ response.metadata.intent = state.intent
        /\ response.metadata.intent \in ClassifierLabels
        /\ response.metadata.used_rag <=> Ran("retrieve_knowledge")
        /\ response.metadata.used_rag <=> (retriever_calls = 1)
        /\ ~Ran("retrieve_knowledge") =>
            /\ response.sources = <<>>
            /\ response.metadata.used_rag = FALSE

\* the label classify_intent stored is not changed by any later step
C18_LabelKept ==
    pc \notin {"idle", "classify_intent"} => state'.intent = state.intent

(***************************************************************************)
(* C18: on every successful turn metadata.intent is the label the          *)
(* classifier produced (as classify_intent stored it, unchanged since) and *)
(* metadata.used_rag is true if and only if retrieve_knowledge ran in that *)
(* run; whenever the retrieval did not run (a query classified as          *)
(* greeting, say) the response has an empty sources list and used_rag is   *)
(* False.                                                                  *)
(***************************************************************************)
C18_MetadataReflectsRun ==
    /\ []C18_MetadataOfSuccess
    /\ [][C18_LabelKept]_vars

C18_Witness ==
    /\ Succeeded
    /\ state.intent = <<"greeting">>
    /\ executed = <<"classify_intent", "decide_rag", "generate_answer",
                    "validate_answer">>
    /\ response.metadata = [intent |-> <<"greeting">>, used_rag |-> FALSE]
    /\ response.sources = <<>>

NoResultsSentence == "No relevant information found in the knowledge base."

(***************************************************************************)
(* C19: when retrieve_knowledge runs and the retriever returns no          *)
(* document, the retrieved-knowledge text is the fixed "No relevant        *)
(* information found in the knowledge base" message, the prompt of         *)
(* generate_answer carries that message inside its knowledge block, and    *)
(* the sources list of the response is empty.                              *)
(***************************************************************************)
C19_NoDocumentsAdvisory ==
    (Ran("retrieve_knowledge") /\ retrieved = <<>>) =>
        /\ state.rag_results = _format_no_results
        /\ Contains(state.rag_results, <<NoResultsSentence>>)
        /\ Ran("generate_answer") =>
            /\ Contains(gen_prompt,
                        <<NL, "Knowledge Base Results:", NL>> \o state.rag_results)
            /\ Contains(gen_prompt, <<NoResultsSentence>>)
            /\ ~Contains(gen_prompt, <<GeneralKnowledgeInstruction>>)
        /\ extract_sources(state.rag_results) = <<>>
        /\ Succeeded => response.sources = <<>>

C19_Witness ==
    /\ Succeeded
    /\ Ran("retrieve_knowledge")
    /\ ~store_raised
    /\ retrieved = <<>>
    /\ Contains(gen_prompt, <<NoResultsSentence>>)
    /\ response.metadata.used_rag = TRUE
    /\ response.sources = <<>>

\* process_message run alone from `turn`, its collaborators giving the
\* outcomes `replies` in order
RECURSIVE Replay(_, _)
Replay(turn, replies) ==
    IF replies = <<>> THEN turn
    ELSE Replay(Advance(turn, Head(replies)), Tail(replies))

RunAlone(t, replies) == Replay(FreshTurn(t), replies)

\* every call stands where it would stand had it run alone with the same
\* outcomes, and returns the response it would return alone
C20_AsIfAlone ==
    \A t \in Turns :
        LET alone == RunAlone(t, turns[t].replies)
        IN  /\ turns[t].pc = alone.pc
            /\ turns[t].state = alone.state
            /\ turns[t].query = TurnQuery(t)
            /\ turns[t].response = alone.response
            /\ turns[t].pc = "done" => turns[t].response # NoResponse

\* a step is the step of one call: it leaves every other call as it was and
\* makes of its own call what that call's state and the outcome determine
C20_StepOfOneTurn ==
    \E t \in Turns :
        /\ \A u \in Turns \ {t} : turns'[u] = turns[u]
        /\ \E o \in Inputs(turns[t]) :
            turns'[t] = [Advance(turns[t], o) EXCEPT
                            !.replies = Append(turns[t].replies, o)]

Call == turns[1]

CallRan(node) == node \in Range(Call.executed)

CallReturned == Call.pc = "done"

\* the call returned the response built from the final state
CallSucceeded == CallReturned /\ "error" \notin DOMAIN Call.response.metadata

\* the outcome the collaborator of a node gave to the call: the step of the
\* k-th executed node consumed the (k+1)-th recorded outcome
OutcomeAt(node) ==
    Call.replies[1 + (CHOOSE k \in 1..Len(Call.executed) : Call.executed[k] = node)]

\* the text the model returned to a node, None if the node has not run or
\* its call raised
ReplyTo(node) ==
    IF CallRan(node) /\ ~OutcomeAt(node).raised THEN OutcomeAt(node).value
    ELSE None

\* the validator's reply carries a confidence the code parses, outside [0, 1]
OutOfRangeConfidence ==
    /\ ReplyTo("validate_answer") # None
    /\ ~parse_confidence(ReplyTo("validate_answer")).raised
    /\ ~AgentResponseValid(parse_confidence(ReplyTo("validate_answer")).value)

(***************************************************************************)
(* C21: every response process_message returns has a confidence within     *)
(* [0, 1]; when the validator reports a confidence that parses as a        *)
(* decimal outside [0, 1] (1.5, -0.2), AgentResponse rejects it and the     *)
(* turn ends with the fallback (confidence 0.0), not with a response that  *)
(* carries the value.                                                      *)
(***************************************************************************)
C21_ConfidenceWithinUnitInterval ==
    /\ CallReturned =>
        (Call.response.confidence >= 0 /\ Call.response.confidence <= 100)
    /\ OutOfRangeConfidence =>
        /\ Call.pc \in {"ask_clarification", "END", "done"}
        /\ Call.state.confidence
               = parse_confidence(ReplyTo("validate_answer")).value
        /\ CallReturned =>
            /\ IsFallback(Call.response)
            /\ Call.response.confidence = 0
            /\ Call.response.metadata.error = ValidationErrorMessage

C21_Witness ==
    /\ CallReturned
    /\ ReplyTo("validate_answer")
           = ClarificationFlag \o <<NL, "CONFIDENCE", ":", " ", "-0.2">>
    /\ Call.state.confidence = -20
    /\ CallRan("ask_clarification")
    /\ IsFallback(Call.response)

\* the number of model calls a node of the call has issued
CallTimesCalledModel(node) ==
    Cardinality({ i \in 1..Len(Call.llm_calls) : Call.llm_calls[i] = node })

\* the gate replies that are the word yes once trimmed and lower-cased
YesReplies == { <<"yes">>, <<" ", "Yes", NL>> }

(***************************************************************************)
(* C22: retrieval gate.  For every intent other than "greeting" and        *)
(* "other" (labels outside the taxonomy included, which pass through       *)
(* unvalidated) decide_rag issues exactly one model call and sets needs_rag *)
(* to true if and only if the reply, trimmed and lower-cased, is exactly   *)
(* "yes"; any other reply ("yes.", "Yes, it does", the empty reply) gives  *)
(* needs_rag = false and the "direct" route.                               *)
(***************************************************************************)
C22_GateDecision ==
    (CallRan("decide_rag")
        /\ Call.state.intent \notin { <<"greeting">>, <<"other">> }) =>
        /\ CallTimesCalledModel("decide_rag") = 1
        /\ OutcomeAt("decide_rag") # NoCall
        /\ OutcomeAt("decide_rag").raised =>
            (CallReturned /\ IsFallback(Call.response))
        /\ ~OutcomeAt("decide_rag").raised =>
            /\ Call.state.needs_rag <=> (ReplyTo("decide_rag") \in YesReplies)
            /\ Call.state.needs_rag =>
                /\ Len(Call.executed) = 2 => Call.pc = "retrieve_knowledge"
                /\ Len(Call.executed) > 2 => Call.executed[3] = "retrieve_knowledge"
            /\ ~Call.state.needs_rag =>
                /\ Len(Call.executed) = 2 => Call.pc = "generate_answer"
                /\ Len(Call.executed) > 2 => Call.executed[3] = "generate_answer"
                /\ ~CallRan("retrieve_knowledge")

C22_Witness ==
    /\ CallSucceeded
    /\ Call.state.intent = <<"billing">>
    /\ ReplyTo("decide_rag") = <<"Yes, it does">>
    /\ Call.response.metadata.used_rag = FALSE
    /\ Call.executed = <<"classify_intent", "decide_rag", "generate_answer",
                         "validate_answer">>

\* the validator's reply carries the flag, verbatim, and a confidence the
\* code parses as a value below the threshold
AsksForClarification ==
    /\ ReplyTo("validate_answer") # None
    /\ Contains(ReplyTo("validate_answer"),
                <<"CLARIFICATION_NEEDED", ":", " ", "yes">>)
    /\ ~parse_confidence(ReplyTo("validate_answer")).raised
    /\ parse_confidence(ReplyTo("validate_answer")).value < confidence_threshold

\* ask_clarification has appended its text to the generated answer
ClarificationAppended ==
    /\ CallRan("ask_clarification")
    /\ Call.state.answer # ReplyTo("generate_answer")
    /\ IsPrefix(ReplyTo("generate_answer") \o <<NL, NL>>, Call.state.answer)

\* the answer returned to the user is the generated answer with a
\* clarification appended
ReturnedWithClarification ==
    /\ ReplyTo("generate_answer") # None
    /\ Call.response.content # ReplyTo("generate_answer")
    /\ IsPrefix(ReplyTo("generate_answer") \o <<NL, NL>>, Call.response.content)

(***************************************************************************)
(* C23: ask_clarification runs in a run if and only if the validator's     *)
(* output contains the exact, case-sensitive text                          *)
(* "CLARIFICATION_NEEDED: yes" and the parsed confidence is strictly below *)
(* confidence_threshold; the router's "clarify" decision agrees with the   *)
(* stored needs_clarification flag, so the response returned has           *)
(* needs_clarification = true exactly when the clarification text was      *)
(* appended to the answer it carries.                                      *)
(***************************************************************************)
C23_ClarifyIffFlagAndLowConfidence ==
    /\ Call.pc \in {"ask_clarification", "END", "done"} =>
        /\ (CallRan("ask_clarification") \/ Call.pc = "ask_clarification")
               <=> AsksForClarification
        /\ AsksForClarification <=> Call.state.needs_clarification
    /\ CallRan("ask_clarification") <=> ClarificationAppended
    /\ CallReturned =>
        /\ Call.response.needs_clarification = TRUE <=> ReturnedWithClarification
        /\ CallSucceeded =>
            (Call.response.needs_clarification = TRUE <=> ClarificationAppended)

C23_Witness ==
    /\ CallSucceeded
    /\ ReplyTo("validate_answer")
           = <<"CLARIFICATION_NEEDED", ":", " ", "Yes", NL>>
               \o ClarificationFlag \o <<NL, "CONFIDENCE", ":", " ", "0.5">>
    /\ ClarificationAppended
    /\ Call.response.needs_clarification = TRUE

\* the clarification question the validator supplied: the trimmed text after
\* the first colon of the reply's first CLARIFICATION_QUESTION: line
SuppliedQuestion ==
    LET question_lines ==
            SelectSeq(Split(ReplyTo("validate_answer"), NL),
                      LAMBDA l : Contains(l, <<"CLARIFICATION_QUESTION", ":">>))
    IN  IF question_lines = <<>> THEN <<>>
        ELSE Strip(SubSeq(question_lines[1],
                          1 + (CHOOSE k \in 1..Len(question_lines[1]) :
                                   /\ question_lines[1][k] = ":"
                                   /\ \A j \in 1..(k - 1) :
                                          question_lines[1][j] # ":"),
                          Len(question_lines[1])))

\* the text ask_clarification is to append
ExpectedClarification ==
    IF SuppliedQuestion # <<>> THEN SuppliedQuestion
    ELSE <<GenericClarification>>

\* the number of positions of t at which s occurs
Occurrences(s, t) ==
    Cardinality({ k \in 1..(Len(t) - Len(s) + 1) :
                      SubSeq(t, k, k + Len(s) - 1) = s })

(***************************************************************************)
(* C24: when ask_clarification has run, the final answer is the            *)
(* generator's answer, then exactly two newlines, then the clarification   *)
(* question supplied by the validator if it is non-empty and otherwise the *)
(* generic "Could you provide more details about your question?"; the      *)
(* generator's answer is kept as a prefix and the clarification is         *)
(* appended exactly once in a run.                                         *)
(***************************************************************************)
C24_ClarificationAppendedOnce ==
    CallRan("ask_clarification") =>
        /\ Call.state.answer
               = ReplyTo("generate_answer") \o <<NL, NL>> \o ExpectedClarification
        /\ IsPrefix(ReplyTo("generate_answer"), Call.state.answer)
        /\ Occurrences(<<NL, NL>> \o ExpectedClarification, Call.state.answer) = 1
        /\ Cardinality({ k \in 1..Len(Call.executed) :
                             Call.executed[k] = "ask_clarification" }) = 1
        /\ CallSucceeded =>
               Call.response.content
                   = ReplyTo("generate_answer") \o <<NL, NL>>
                         \o ExpectedClarification

C24_Witness ==
    /\ CallSucceeded
    /\ CallRan("ask_clarification")
    /\ SuppliedQuestion = <<"Which order do you mean?">>
    /\ Call.response.content
           = <<"You can return items within 30 days.", NL, NL,
               "Which order do you mean?">>

\* the validator supplied an empty question and the generic one was appended
C24_GenericWitness ==
    /\ CallSucceeded
    /\ CallRan("ask_clarification")
    /\ Contains(ReplyTo("validate_answer"), <<"CLARIFICATION_QUESTION", ":">>)
    /\ SuppliedQuestion = <<>>
    /\ Call.response.content
           = <<"You can return items within 30 days.", NL, NL,
               GenericClarification>>

\* the validator's reply has at least one line containing "CONFIDENCE:"
HasConfidenceLine ==
    /\ ReplyTo("validate_answer") # None
    /\ confidence_lines(ReplyTo("validate_answer")) # <<>>

\* the trimmed remainder, after its first colon, of the first such line
ConfidenceRemainder == TextAfterConfidenceColon(ReplyTo("validate_answer"))

\* the first CONFIDENCE: line has a single colon
SingleColonConfidence ==
    Len(Split(confidence_lines(ReplyTo("validate_answer"))[1], ":")) = 2

\* validate_answer stored the decimal v
StoredConfidence(v) ==
    /\ Call.pc \in {"ask_clarification", "END", "done"}
    /\ Call.state.confidence = v
    /\ CallReturned => Call.response.metadata # [error |-> ValueErrorMessage]

\* validate_answer raised on the confidence and the turn ended with the
\* fallback
ConfidenceRejected ==
    /\ CallReturned
    /\ IsFallback(Call.response)
    /\ Call.response.metadata.error = ValueErrorMessage

(***************************************************************************)
(* C25: when the validator's reply has one or more lines containing        *)
(* "CONFIDENCE:", the confidence is taken from the first such line only:   *)
(* the trimmed text after that line's first colon, the whole remainder of  *)
(* the line, parsed as a decimal; a remainder that is not a decimal is     *)
(* rejected, and later CONFIDENCE: lines have no effect.                   *)
(***************************************************************************)
C25_ConfidenceFromFirstLine ==
    HasConfidenceLine =>
        IF FloatParses(ConfidenceRemainder)
        THEN StoredConfidence(FloatValue(ConfidenceRemainder[1]))
        ELSE ConfidenceRejected

\* the part of C25 that the code keeps: with a single colon on the first
\* CONFIDENCE: line, that line alone decides
C25_FirstLineOnlySingleColon ==
    (HasConfidenceLine /\ SingleColonConfidence) => C25_ConfidenceFromFirstLine

(***************************************************************************)
(* C26: in every response process_message returns, a non-empty             *)
(* clarification_question is present only when clarification is needed:    *)
(* needs_clarification = false implies that clarification_question is      *)
(* empty, also when the validator wrote "CLARIFICATION_NEEDED: yes" with a *)
(* question and a confidence at or above the threshold.                    *)
(***************************************************************************)
C26_QuestionOnlyWhenNeeded ==
    (CallReturned /\ Call.response.needs_clarification = FALSE) =>
        Call.response.clarification_question \in {None, <<>>}

\* the keys of AgentState
StateKeys ==
    {"messages", "user_query", "intent", "needs_rag", "rag_results",
     "confidence", "answer", "needs_clarification", "clarification_question",
     "iteration_count"}

\* the keys each node is said to change
FrameOf(node) ==
    CASE node = "classify_intent" -> {"intent", "messages"}
      [] node = "decide_rag" -> {"needs_rag"}
      [] node = "retrieve_knowledge" -> {"rag_results"}
      [] node = "generate_answer" -> {"answer", "messages"}
      [] node = "validate_answer" ->
             {"confidence", "needs_clarification", "clarification_question"}
      [] node = "ask_clarification" -> {"answer"}

\* the step is the execution of a node, and it leaves every key outside
\* `frame(node)`, `ignored` apart, as it was
StepKeepsFrame(frame(_), ignored) ==
    \A node \in Nodes :
        (Call.pc = node /\ Call'.pc # node) =>
            \A key \in (StateKeys \ frame(node)) \ ignored :
                Call'.state[key] = Call.state[key]

\* user_query is the message of the call and iteration_count is 0 from the
\* initial state on
QueryAndCounterFixed ==
    Call.pc # "idle" =>
        /\ Call.state.user_query = Call.query
        /\ Call.state.iteration_count = 0

\* on a call that reached the end of the graph classify_intent and
\* decide_rag, the only writers of intent and needs_rag, ran exactly once each
WrittenOnce ==
    Call.pc \in {"END"} \/ CallSucceeded =>
        \A node \in {"classify_intent", "decide_rag"} :
            Cardinality({ k \in 1..Len(Call.executed) :
                              Call.executed[k] = node }) = 1

(***************************************************************************)
(* C27: the frame of each node: classify_intent changes only intent (and   *)
(* the message history), decide_rag only needs_rag, retrieve_knowledge     *)
(* only rag_results, generate_answer only answer (and the message          *)
(* history), validate_answer only confidence, needs_clarification and      *)
(* clarification_question, ask_clarification only answer; user_query never *)
(* changes after the initial state, iteration_count stays 0, and intent    *)
(* and needs_rag are each written exactly once.                            *)
(***************************************************************************)
C27_NodeFrames ==
    /\ [](QueryAndCounterFixed /\ WrittenOnce)
    /\ [][StepKeepsFrame(FrameOf, {})]_vars

\* the frames hold for every key but the message history
C27_FramesApartFromMessages ==
    /\ [](QueryAndCounterFixed /\ WrittenOnce)
    /\ [][StepKeepsFrame(FrameOf, {"messages"})]_vars

\* the model calls of a turn that goes through the whole graph
ExpectedModelCalls ==
    IF state.intent \in { <<"greeting">>, <<"other">> }
    THEN <<"classify_intent", "generate_answer", "validate_answer">>
    ELSE <<"classify_intent", "decide_rag", "generate_answer", "validate_answer">>

\* at most one more model call after a step, issued after the earlier ones
OneCallAtATime ==
    /\ IsPrefix(llm_calls, llm_calls')
    /\ Len(llm_calls') <= Len(llm_calls) + 1

(***************************************************************************)
(* C28: every successful turn issues exactly 3 model calls when the intent *)
(* is "greeting" or "other" (classify, generate, validate) and exactly 4   *)
(* otherwise (classify, gate, generate, validate), one after another; no   *)
(* run issues more than 4 model calls or more than 1 retriever call, and   *)
(* ask_clarification and retrieve_knowledge issue no model call.           *)
(***************************************************************************)
C28_ModelCallBudget ==
    /\ [](/\ Len(llm_calls) <= 4
          /\ retriever_calls <= 1
          /\ Succeeded => llm_calls = ExpectedModelCalls
          /\ Range(llm_calls) \cap {"ask_clarification", "retrieve_knowledge"} = {})
    /\ [][/\ OneCallAtATime
          /\ pc \in {"ask_clarification", "retrieve_knowledge"} =>
                 llm_calls' = llm_calls]_vars

C28_Witness ==
    /\ Succeeded
    /\ Len(llm_calls) = 4
    /\ retriever_calls = 1
    /\ Ran("ask_clarification")
    /\ state.intent = <<"billing">>

\* the validator's reply has the flag "CLARIFICATION_NEEDED: yes" and no line
\* containing "CONFIDENCE:"
FlagWithoutConfidence ==
    /\ ReplyTo("validate_answer") # None
    /\ Contains(ReplyTo("validate_answer"), ClarificationFlag)
    /\ ~Contains(ReplyTo("validate_answer"), <<"CONFIDENCE", ":">>)

(***************************************************************************)
(* C29: with confidence_threshold at its default 0.7, a validator reply    *)
(* that contains "CLARIFICATION_NEEDED: yes" but no "CONFIDENCE:" line     *)
(* never leads to clarification: the confidence defaults to 0.8,           *)
(* needs_clarification is stored as false, ask_clarification does not run  *)
(* and the answer is returned unmodified.                                  *)
(***************************************************************************)
C29_FlagWithoutConfidenceNeverClarifies ==
    FlagWithoutConfidence =>
        /\ confidence_threshold = 70
        /\ Call.state.confidence = 80
        /\ Call.state.needs_clarification = FALSE
        /\ Call.pc \in {"END", "done"}
        /\ ~CallRan("ask_clarification")
        /\ Call.state.answer = ReplyTo("generate_answer")
        /\ CallReturned =>
            /\ CallSucceeded
            /\ Call.response.content = ReplyTo("generate_answer")
            /\ Call.response.confidence = 80
            /\ Call.response.needs_clarification = FALSE

C29_Witness ==
    /\ CallSucceeded
    /\ ReplyTo("validate_answer")
           = ClarificationFlag
               \o <<NL, "CLARIFICATION_QUESTION", ":", " ",
                    "Which order do you mean?">>
    /\ Call.response.content = <<"You can return items within 30 days.">>
    /\ Call.response.confidence = 80

\* the message history of the call, empty before the initial state
History(turn) ==
    IF "messages" \in DOMAIN turn.state THEN turn.state.messages ELSE <<>>

\* a step only adds utterances at the end of the history
HistoryAppendOnly == IsPrefix(History(Call), History(Call'))

\* the user's query, then the generated answer
QueryThenAnswer ==
    <<HumanMessage(Call.query), AIMessage(ReplyTo("generate_answer"))>>

(***************************************************************************)
(* C30: the message history of a turn is append-only and, at the end of    *)
(* every successful turn, consists of exactly the user's query (one        *)
(* user-role utterance) followed by the generated answer (one              *)
(* assistant-role utterance), each appearing once, the messages key being  *)
(* merged with operator.add while every node returns the whole state.      *)
(***************************************************************************)
C30_HistoryIsQueryThenAnswer ==
    /\ [](CallSucceeded => History(Call) = QueryThenAnswer)
    /\ [][HistoryAppendOnly]_vars

\* the part of C30 that the code keeps
C30_AppendOnly == [][HistoryAppendOnly]_vars

====
